---- MODULE Spec2Model ----
(***************************************************************************)
(* Serverless Streams: the offset allocation and message I/O protocol.     *)
(*                                                                         *)
(* One topic is modelled.  The DynamoDB counter item of the topic is       *)
(* `counter`, the S3 bucket is `bucket` (object key -> object), and the    *)
(* Lambda invocations are the produce calls of Producers and the consume   *)
(* call of one consumer.  The Rust handlers (server/src/produce.rs,        *)
(* server/src/consume.rs) are described by the README's "How It Works"     *)
(* and by the specification; the infrastructure (bucket, lifecycle rule,   *)
(* counters table) is infra/lib/data-stack.ts.                             *)
(***************************************************************************)
EXTENDS Integers, Sequences, FiniteSets, TLC

(* ---------------------------- bounds ----------------------------------- *)
\* Concurrent Lambda invocations serving produce requests.
NumProducers == 2
\* Cap on the topic's counter: no produce starts once it could pass it.
MaxOffset == 3
\* Messages already in the topic when the bulk-read specification starts.
BulkCount == 101

(* ------------------------ program constants ---------------------------- *)
\* topics/{topic}/{offset:020}.json
KeyWidth == 20
\* offset (optional): default 1
DefaultOffset == 1
\* limit (optional): default 10, max 100
DefaultLimit == 10
MaxLimit == 100
\* Fetch messages in parallel (max 10 concurrent reads)
MaxConcurrentReads == 10

Producers == 1..NumProducers
Payloads == {"book", "pen"}
\* The payload of a call that holds none (before parsing, after the response).
NoPayload == "none"
\* A request body {"payload": ...}: the set holds the payload, or is empty
\* when the field is missing.
RequestBodies == {{}} \cup {{x} : x \in Payloads}
\* A query parameter: the set holds its value, or is empty when omitted.
OffsetParams == {{}, {0 - 1}, {2}}
LimitParams == {{}, {2}}

VARIABLES
  counter,    \* the topic's item in the counters table: last allocated offset
  bucket,     \* the messages bucket: objects [key, payload, timestamp] in key order
  clock,      \* now(), in logical milliseconds
  ppc,        \* produce call of each producer: idle, allocate, put, done
  ppayload,   \* the payload submitted with the call
  poffset,    \* the offset the allocator returned to the call
  presult,    \* the call's response: none, ok, or an error
  calls,      \* history: one record per offset the allocator returned
  burned,     \* history: offsets advanced by an allocate whose response was lost
  cpc,        \* consume call: idle, list, fetch, done
  creq,       \* its query parameters [offset, limit]
  window,     \* the selected object keys, ascending (listing order)
  dispatched, \* how many of the window's fetches have been started
  inflight,   \* keys whose fetch is running
  results,    \* fetched messages, in completion order
  outcome,    \* history: key -> "ok" | "miss" for every completed fetch
  listed,     \* history: the offsets present in the bucket when it was listed
  response,   \* the consume response
  cursor,     \* polling client: the offset of its next consume call
  received    \* polling client: the offsets of the messages it has been given

prodVars == <<ppc, ppayload, poffset, presult, calls, burned>>
consVars == <<cpc, creq, window, dispatched, inflight, results, outcome, listed, response>>
clientVars == <<cursor, received>>
vars == <<counter, bucket, clock, prodVars, consVars, clientVars>>

(* --------------------------- key encoding ------------------------------ *)
\* {n:0w}: the decimal digits of n, zero-padded on the left to width w.
RECURSIVE ZeroPad(_, _)
ZeroPad(n, w) == IF w = 0 THEN << >> ELSE Append(ZeroPad(n \div 10, w - 1), n % 10)

\* The object key of (topic, offset): topics/{topic}/{offset:020}.json.
ObjectKey(offset) == ZeroPad(offset, KeyWidth)

\* The offset a key's digits spell.
RECURSIVE ParseOffset(_)
ParseOffset(key) ==
  IF key = << >> THEN 0
  ELSE 10 * ParseOffset(SubSeq(key, 1, Len(key) - 1)) + key[Len(key)]

\* S3 orders keys lexicographically (by character): a is before b when a
\* is smaller at the first place they differ, or is a proper prefix of b.
LexLess(a, b) ==
  LET n == IF Len(a) < Len(b) THEN Len(a) ELSE Len(b)
  IN \/ \E i \in 1..n : a[i] < b[i] /\ \A j \in 1..(i - 1) : a[j] = b[j]
     \/ Len(a) < Len(b) /\ \A j \in 1..n : a[j] = b[j]

\* The bucket is S3's index: a sequence of objects [key, payload, timestamp]
\* in key order, each key at most once.
HasObject(b, key) == \E i \in 1..Len(b) : b[i].key = key

\* GetObject
GetObject(b, key) == b[CHOOSE i \in 1..Len(b) : b[i].key = key]

\* PutObject: the object replaces the one under its key, or is added.
PutObject(b, obj) ==
  IF HasObject(b, obj.key)
  THEN [i \in 1..Len(b) |-> IF b[i].key = obj.key THEN obj ELSE b[i]]
  ELSE LET n == Cardinality({i \in 1..Len(b) : LexLess(b[i].key, obj.key)})
       IN SubSeq(b, 1, n) \o <<obj>> \o SubSeq(b, n + 1, Len(b))

\* DeleteObject (issued by the lifecycle rule only).
DeleteObject(b, key) == SelectSeq(b, LAMBDA o : o.key # key)

\* Mutation: the listing starts after the key of from_offset (StartAfter is
\* exclusive), so the requested offset itself is left out.
ListObjectsStartAfter(b, from) ==
  LET start == ObjectKey(from)
      found == SelectSeq(b, LAMBDA o : LexLess(start, o.key))
  IN [i \in 1..Len(found) |-> found[i].key]

\* list(topic, from_offset): the keys of the bucket at or after the key of
\* from_offset, in S3's (lexicographic) order.
ListObjects(b, from) ==
  LET start == ObjectKey(from)
      found == SelectSeq(b, LAMBDA o : ~LexLess(o.key, start))
  IN [i \in 1..Len(found) |-> found[i].key]

\* The offsets that have an object in the bucket.
StoredOffsets(b) == {ParseOffset(b[i].key) : i \in 1..Len(b)}

(* --------------------------- Produce Handler --------------------------- *)
\* Mutation: the counter is read and one is added locally; nothing is stored.
PeekNext(c) == [stored |-> c, returned |-> c + 1]

\* Mutation: the update returns the value the item held before (UPDATED_OLD).
ReturnsOldValue(c) == [stored |-> c + 1, returned |-> c]

\* UpdateItem with ADD 1 on the counter item holding c: the value the item
\* holds afterwards and the value returned to the caller (the new total).
IncrementAndGet(c) == [stored |-> c + 1, returned |-> c + 1]

\* The history with the put of the call holding `offset` settled.
SettleCall(h, offset, status) ==
  [i \in 1..Len(h) |->
     IF h[i].offset = offset /\ h[i].status = "putting"
     THEN [h[i] EXCEPT !.status = status] ELSE h[i]]

Allocating == {p \in Producers : ppc[p] = "allocate"}

\* POST /topics/{topic}/produce: step 1, parse the body {"payload": ...}.
StartProduce(p, body) ==
  /\ ppc[p] \in {"idle", "done"}
  /\ counter + Cardinality(Allocating) < MaxOffset
  /\ IF body = {}
     THEN /\ ppc' = [ppc EXCEPT ![p] = "done"]
          /\ presult' = [presult EXCEPT ![p] = "ValidationError"]
          /\ ppayload' = [ppayload EXCEPT ![p] = NoPayload]
     ELSE /\ ppc' = [ppc EXCEPT ![p] = "allocate"]
          /\ presult' = [presult EXCEPT ![p] = "none"]
          /\ ppayload' = [ppayload EXCEPT ![p] = CHOOSE x \in body : TRUE]
  /\ poffset' = [poffset EXCEPT ![p] = 0]
  /\ UNCHANGED <<clientVars, counter, bucket, clock, calls, burned, consVars>>

\* Step 2: atomically increment the offset counter; the new value is the offset.
AllocateOk(p) ==
  /\ ppc[p] = "allocate"
  /\ counter' = IncrementAndGet(counter).stored
  /\ poffset' = [poffset EXCEPT ![p] = IncrementAndGet(counter).returned]
  /\ calls' = Append(calls, [offset |-> poffset'[p], payload |-> ppayload[p],
                            status |-> "putting"])
  /\ ppc' = [ppc EXCEPT ![p] = "put"]
  /\ UNCHANGED <<clientVars, bucket, clock, ppayload, presult, burned, consVars>>

\* Mutation: after a failed allocate the handler goes on to the put with the
\* offset it expects to be next.
AllocateFailProceeds(p, applied) ==
  /\ ppc[p] = "allocate"
  /\ counter' = IF applied THEN IncrementAndGet(counter).stored ELSE counter
  /\ burned' = IF applied THEN burned \cup {counter'} ELSE burned
  /\ ppc' = [ppc EXCEPT ![p] = "put"]
  /\ poffset' = [poffset EXCEPT ![p] = counter + 1]
  /\ UNCHANGED <<clientVars, bucket, clock, ppayload, presult, calls, consVars>>

\* Step 2 fails: BackendUnavailable, nothing is written.  The counter store
\* may have applied the increment before the response was lost.
AllocateFail(p, applied) ==
  /\ ppc[p] = "allocate"
  /\ counter' = IF applied THEN IncrementAndGet(counter).stored ELSE counter
  /\ burned' = IF applied THEN burned \cup {counter'} ELSE burned
  /\ ppc' = [ppc EXCEPT ![p] = "done"]
  /\ presult' = [presult EXCEPT ![p] = "BackendUnavailable"]
  /\ ppayload' = [ppayload EXCEPT ![p] = NoPayload]
  /\ UNCHANGED <<clientVars, bucket, clock, poffset, calls, consVars>>

\* Mutation: the message is written under the key of the counter's current
\* value instead of the offset the allocator returned to this call.
PutOkAtCounter(p) ==
  /\ ppc[p] = "put"
  /\ bucket' = PutObject(bucket, [key |-> ObjectKey(counter),
                                  payload |-> ppayload[p], timestamp |-> clock])
  /\ clock' = clock + 1
  /\ calls' = SettleCall(calls, poffset[p], "ok")
  /\ ppc' = [ppc EXCEPT ![p] = "done"]
  /\ presult' = [presult EXCEPT ![p] = "ok"]
  /\ ppayload' = [ppayload EXCEPT ![p] = NoPayload]
  /\ UNCHANGED <<clientVars, counter, poffset, burned, consVars>>

\* Step 3: write the message to S3 under the key of the allocated offset;
\* step 4: return {"topic", "offset"}.
PutOk(p) ==
  /\ ppc[p] = "put"
  /\ bucket' = PutObject(bucket, [key |-> ObjectKey(poffset[p]),
                                  payload |-> ppayload[p], timestamp |-> clock])
  /\ clock' = clock + 1
  /\ calls' = SettleCall(calls, poffset[p], "ok")
  /\ ppc' = [ppc EXCEPT ![p] = "done"]
  /\ presult' = [presult EXCEPT ![p] = "ok"]
  /\ ppayload' = [ppayload EXCEPT ![p] = NoPayload]
  /\ UNCHANGED <<clientVars, counter, poffset, burned, consVars>>

\* Mutation: a failed put gives the offset back to the counter.
PutFailRollback(p) ==
  /\ ppc[p] = "put"
  /\ counter' = counter - 1
  /\ calls' = SettleCall(calls, poffset[p], "failed")
  /\ ppc' = [ppc EXCEPT ![p] = "done"]
  /\ presult' = [presult EXCEPT ![p] = "WriteFailed"]
  /\ ppayload' = [ppayload EXCEPT ![p] = NoPayload]
  /\ poffset' = [poffset EXCEPT ![p] = 0]
  /\ UNCHANGED <<clientVars, bucket, clock, burned, consVars>>

\* Step 3 fails: the error is reported, the offset stays allocated.
PutFail(p) ==
  /\ ppc[p] = "put"
  /\ calls' = SettleCall(calls, poffset[p], "failed")
  /\ ppc' = [ppc EXCEPT ![p] = "done"]
  /\ presult' = [presult EXCEPT ![p] = "WriteFailed"]
  /\ ppayload' = [ppayload EXCEPT ![p] = NoPayload]
  /\ poffset' = [poffset EXCEPT ![p] = 0]
  /\ UNCHANGED <<clientVars, counter, bucket, clock, burned, consVars>>

(* --------------------------- Consume Handler --------------------------- *)
\* offset (optional): default 1; an offset below 1 reads from 1.
NormalizeOffset(q) ==
  IF q = {} THEN DefaultOffset
  ELSE LET v == CHOOSE x \in q : TRUE IN IF v < 1 THEN 1 ELSE v

\* Mutation: the limit is not capped at the maximum.
ClampLimitNoMax(q) ==
  IF q = {} THEN DefaultLimit
  ELSE LET v == CHOOSE x \in q : TRUE IN IF v < 1 THEN 1 ELSE v

\* limit (optional): default 10, clamped into [1, 100].
ClampLimit(q) ==
  IF q = {} THEN DefaultLimit
  ELSE LET v == CHOOSE x \in q : TRUE
       IN IF v < 1 THEN 1 ELSE IF v > MaxLimit THEN MaxLimit ELSE v

\* The first n elements of a sequence (all of it when it is shorter).
Take(s, n) == SubSeq(s, 1, IF Len(s) < n THEN Len(s) ELSE n)

\* The window: at most `limit` of the listed keys, in listing order.
SelectWindow(listing, limit) == Take(listing, limit)

\* Mutation: the fetched messages are returned in completion order.
KeepCompletionOrder(s) == s

\* Sort by offset (parallel reads don't preserve order); the sort is stable.
SortByOffset(s) ==
  LET before(j, i) == \/ s[j].offset < s[i].offset
                      \/ s[j].offset = s[i].offset /\ j < i
      rank == [i \in 1..Len(s) |-> Cardinality({j \in 1..Len(s) : before(j, i)})]
  IN [i \in 1..Len(s) |-> s[CHOOSE j \in 1..Len(s) : rank[j] = i - 1]]

\* Mutation: the cursor advances by the number of messages returned.
NextOffsetByCount(messages, offset) == offset + Len(messages)

\* next_offset: one past the last returned message, or the requested
\* (normalized) offset when nothing was returned.
NextOffset(messages, offset) ==
  IF messages = << >> THEN offset ELSE messages[Len(messages)].offset + 1

NoResponse == [status |-> "none", messages |-> << >>, next_offset |-> 0]

\* GET /topics/{topic}/consume: step 1, parse the query params.
StartConsume(qoffset, qlimit) ==
  /\ cpc \in {"idle", "done"}
  /\ creq' = [offset |-> qoffset, limit |-> qlimit]
  /\ cpc' = "list"
  /\ window' = << >>
  /\ dispatched' = 0
  /\ inflight' = {}
  /\ results' = << >>
  /\ outcome' = << >>
  /\ listed' = {}
  /\ response' = NoResponse
  /\ UNCHANGED <<clientVars, counter, bucket, clock, prodVars>>

\* Step 2: list the objects from the offset onwards and select the window.
ListOk ==
  /\ cpc = "list"
  /\ window' = SelectWindow(ListObjects(bucket, NormalizeOffset(creq.offset)),
                            ClampLimit(creq.limit))
  /\ listed' = StoredOffsets(bucket)
  /\ cpc' = "fetch"
  /\ UNCHANGED <<clientVars, counter, bucket, clock, prodVars, creq, dispatched, inflight,
                 results, outcome, response>>

\* Step 2 fails: BackendUnavailable, no partial result.
ListFail ==
  /\ cpc = "list"
  /\ response' = [status |-> "BackendUnavailable", messages |-> << >>, next_offset |-> 0]
  /\ cpc' = "done"
  /\ UNCHANGED <<clientVars, counter, bucket, clock, prodVars, creq, window, dispatched,
                 inflight, results, outcome, listed>>

\* Mutation: every fetch of the window is started at once.
DispatchUncapped ==
  /\ cpc = "fetch"
  /\ dispatched < Len(window)
  /\ inflight' = inflight \cup {window[dispatched + 1]}
  /\ dispatched' = dispatched + 1
  /\ UNCHANGED <<clientVars, counter, bucket, clock, prodVars, cpc, creq, window, results,
                 outcome, listed, response>>

\* Step 3: start the next fetch of the window while fewer than
\* MaxConcurrentReads are running.
Dispatch ==
  /\ cpc = "fetch"
  /\ dispatched < Len(window)
  /\ Cardinality(inflight) < MaxConcurrentReads
  /\ inflight' = inflight \cup {window[dispatched + 1]}
  /\ dispatched' = dispatched + 1
  /\ UNCHANGED <<clientVars, counter, bucket, clock, prodVars, cpc, creq, window, results,
                 outcome, listed, response>>

\* The message a fetched object holds: its offset is the key's.
MessageOf(obj) ==
  [offset |-> ParseOffset(obj.key), payload |-> obj.payload, timestamp |-> obj.timestamp]

\* Mutation: a message is removed from the bucket once it has been read.
FetchAndDelete(key) ==
  /\ cpc = "fetch"
  /\ key \in inflight
  /\ HasObject(bucket, key)
  /\ results' = Append(results, MessageOf(GetObject(bucket, key)))
  /\ inflight' = inflight \ {key}
  /\ outcome' = [k \in DOMAIN outcome \cup {key} |-> IF k = key THEN "ok" ELSE outcome[k]]
  /\ bucket' = DeleteObject(bucket, key)
  /\ UNCHANGED <<clientVars, counter, clock, prodVars, cpc, creq, window, dispatched,
                 listed, response>>

\* A running fetch completes with the object.
FetchOk(key) ==
  /\ cpc = "fetch"
  /\ key \in inflight
  /\ HasObject(bucket, key)
  /\ results' = Append(results, MessageOf(GetObject(bucket, key)))
  /\ inflight' = inflight \ {key}
  /\ outcome' = [k \in DOMAIN outcome \cup {key} |-> IF k = key THEN "ok" ELSE outcome[k]]
  /\ UNCHANGED <<clientVars, counter, bucket, clock, prodVars, cpc, creq, window, dispatched,
                 listed, response>>

\* A running fetch fails (the object is gone, or the read failed): skipped.
FetchMiss(key) ==
  /\ cpc = "fetch"
  /\ key \in inflight
  /\ inflight' = inflight \ {key}
  /\ outcome' = [k \in DOMAIN outcome \cup {key} |-> IF k = key THEN "miss" ELSE outcome[k]]
  /\ UNCHANGED <<clientVars, counter, bucket, clock, prodVars, cpc, creq, window, dispatched,
                 results, listed, response>>

\* Mutation: the response does not wait for the running fetches.
AllDispatched == dispatched = Len(window)

\* Every fetch of the window has been started and none is running.
AllFetched == dispatched = Len(window) /\ inflight = {}

\* Steps 4 and 5: sort by offset, return messages + next_offset.
Respond ==
  /\ cpc = "fetch"
  /\ AllFetched
  /\ LET messages == SortByOffset(results)
     IN response' = [status |-> "ok", messages |-> messages,
                     next_offset |-> NextOffset(messages, NormalizeOffset(creq.offset))]
  /\ cpc' = "done"
  /\ UNCHANGED <<clientVars, counter, bucket, clock, prodVars, creq, window, dispatched,
                 inflight, results, outcome, listed>>

(* ---------------------------- polling client --------------------------- *)
\* The client calls consume with the next_offset of its previous response
\* (offset 1 at the start).
Poll(qlimit) ==
  /\ cpc = "idle"
  /\ StartConsume({cursor}, qlimit)

\* The client takes the response: the messages, and next_offset as its new
\* cursor; after an error it keeps its cursor and polls again.
Receive ==
  /\ cpc = "done"
  /\ cpc' = "idle"
  /\ IF response.status = "ok"
     THEN /\ cursor' = response.next_offset
          /\ received' = received \cup
                           {response.messages[i].offset : i \in 1..Len(response.messages)}
     ELSE UNCHANGED <<cursor, received>>
  /\ UNCHANGED <<counter, bucket, clock, prodVars, creq, window, dispatched,
                 inflight, results, outcome, listed, response>>

(* ------------------------------ retention ------------------------------ *)
\* lifecycleRules ExpireOldMessages: S3 deletes an object out of band.
Expire(key) ==
  /\ HasObject(bucket, key)
  /\ bucket' = DeleteObject(bucket, key)
  /\ UNCHANGED <<clientVars, counter, clock, prodVars, consVars>>

Init ==
  /\ counter = 0
  /\ bucket = << >>
  /\ clock = 1
  /\ ppc = [p \in Producers |-> "idle"]
  /\ ppayload = [p \in Producers |-> NoPayload]
  /\ poffset = [p \in Producers |-> 0]
  /\ presult = [p \in Producers |-> "none"]
  /\ calls = << >>
  /\ burned = {}
  /\ cpc = "idle"
  /\ creq = [offset |-> {}, limit |-> {}]
  /\ window = << >>
  /\ dispatched = 0
  /\ inflight = {}
  /\ results = << >>
  /\ outcome = << >>
  /\ listed = {}
  /\ response = NoResponse
  /\ cursor = DefaultOffset
  /\ received = {}

Next ==
  \/ \E p \in Producers, body \in RequestBodies : StartProduce(p, body)
  \/ \E p \in Producers : AllocateOk(p)
  \/ \E p \in Producers, applied \in BOOLEAN : AllocateFail(p, applied)
  \/ \E p \in Producers : PutOk(p)
  \/ \E p \in Producers : PutFail(p)
  \/ \E i \in 1..Len(bucket) : Expire(bucket[i].key)
  \/ \E qoffset \in OffsetParams, qlimit \in LimitParams : StartConsume(qoffset, qlimit)
  \/ ListOk
  \/ ListFail
  \/ Dispatch
  \/ \E key \in inflight : FetchOk(key)
  \/ \E key \in inflight : FetchMiss(key)
  \/ Respond

Spec == Init /\ [][Next]_vars

\* The produce calls alone (with retention), no consume call running.
NextProduce ==
  \/ \E p \in Producers, body \in RequestBodies : StartProduce(p, body)
  \/ \E p \in Producers : AllocateOk(p)
  \/ \E p \in Producers, applied \in BOOLEAN : AllocateFail(p, applied)
  \/ \E p \in Producers : PutOk(p)
  \/ \E p \in Producers : PutFail(p)
  \/ \E i \in 1..Len(bucket) : Expire(bucket[i].key)

SpecProduce == Init /\ [][NextProduce]_vars

\* A client polling forever while produce calls run, in a run without
\* failures: every allocate, put, listing and fetch succeeds and nothing
\* expires.
NextPoll ==
  \/ \E p \in Producers, x \in Payloads : StartProduce(p, {x})
  \/ \E p \in Producers : AllocateOk(p)
  \/ \E p \in Producers : PutOk(p)
  \/ \E qlimit \in LimitParams : Poll(qlimit)
  \/ ListOk
  \/ Dispatch
  \/ \E key \in inflight : FetchOk(key)
  \/ Respond
  \/ Receive

\* The steps that finish a produce call that was started.
ProduceSteps == \E p \in Producers : AllocateOk(p) \/ PutOk(p)

\* The steps of the polling client and of its consume calls.
ConsumeSteps ==
  \/ \E qlimit \in LimitParams : Poll(qlimit)
  \/ ListOk
  \/ Dispatch
  \/ \E key \in inflight : FetchOk(key)
  \/ Respond
  \/ Receive

\* Every invocation runs to its end and the client never stops polling.
SpecPoll ==
  /\ Init /\ [][NextPoll]_vars
  /\ WF_vars(ProduceSteps)
  /\ WF_vars(ConsumeSteps)

(* ------------------------------ bulk reads ------------------------------ *)
\* A topic that already holds BulkCount messages: offsets 1..BulkCount+1 were
\* allocated one after the other and the put of offset 2 failed (a gap).
BulkOffsets == (1..(BulkCount + 1)) \ {2}
BulkPayload(o) == IF o % 2 = 0 THEN "book" ELSE "pen"

InitBulk ==
  /\ counter = BulkCount + 1
  /\ bucket = [i \in 1..BulkCount |->
                 LET o == IF i = 1 THEN 1 ELSE i + 1
                 IN [key |-> ObjectKey(o), payload |-> BulkPayload(o), timestamp |-> o]]
  /\ clock = BulkCount + 2
  /\ ppc = [p \in Producers |-> "idle"]
  /\ ppayload = [p \in Producers |-> NoPayload]
  /\ poffset = [p \in Producers |-> 0]
  /\ presult = [p \in Producers |-> "none"]
  /\ calls = [o \in 1..(BulkCount + 1) |->
                [offset |-> o, payload |-> BulkPayload(o),
                 status |-> IF o \in BulkOffsets THEN "ok" ELSE "failed"]]
  /\ burned = {}
  /\ cpc = "idle"
  /\ creq = [offset |-> {}, limit |-> {}]
  /\ window = << >>
  /\ dispatched = 0
  /\ inflight = {}
  /\ results = << >>
  /\ outcome = << >>
  /\ listed = {}
  /\ response = NoResponse
  /\ cursor = DefaultOffset
  /\ received = {}

BulkOffsetParams == {{}, {0 - 1}, {0}, {3}, {BulkCount - 5}, {BulkCount + 5}}
BulkLimitParams == {{}, {0}, {1}, {MaxLimit}, {MaxLimit + 400}}

\* The running fetch that was started first.
OldestInflight == CHOOSE k \in inflight : \A j \in inflight : ~LexLess(j, k)

\* The reads of a large window, completing in the order they were started.
NextBulk ==
  \/ \E qoffset \in BulkOffsetParams, qlimit \in BulkLimitParams : StartConsume(qoffset, qlimit)
  \/ ListOk
  \/ Dispatch
  \/ inflight # {} /\ FetchOk(OldestInflight)
  \/ Respond

SpecBulk == InitBulk /\ [][NextBulk]_vars
(* ======================= properties of the protocol ====================== *)
AllocatedOffsets == {calls[i].offset : i \in 1..Len(calls)}
ReturnedOffsets == {calls[i].offset : i \in {j \in 1..Len(calls) : calls[j].status = "ok"}}
InPut == {p \in Producers : ppc[p] = "put"}

\* C1: whatever the interleaving of the produce calls, the offsets the
\* allocator has returned since the counter held 0 are pairwise different,
\* each is held by one call only, and together with the offsets advanced by
\* an allocate whose response was lost they are exactly 1..counter (no
\* duplicate, no drop); no two stored messages share an offset.
C1_AllocatorUnique ==
  /\ \A i, j \in 1..Len(calls) : i # j => calls[i].offset # calls[j].offset
  /\ AllocatedOffsets \cup burned = 1..counter
  /\ AllocatedOffsets \cap burned = {}
  /\ \A p, q \in InPut : p # q => poffset[p] # poffset[q]
  /\ \A i, j \in 1..Len(bucket) :
       i # j => ParseOffset(bucket[i].key) # ParseOffset(bucket[j].key)

\* Two calls hold an allocated offset at the same time, and a third offset
\* has been allocated as well.
C1_Witness == Cardinality(InPut) >= 2 /\ Len(calls) >= 3

\* C2: when no allocate and no put has failed and every call that was given
\* an offset has returned, the k successful calls returned exactly 1..k: the
\* first offset of the fresh topic is 1, with no duplicate and no gap.
C2_DenseFromOne ==
  (burned = {} /\ \A i \in 1..Len(calls) : calls[i].status = "ok")
    => /\ ReturnedOffsets = 1..Len(calls)
       /\ \A i, j \in 1..Len(calls) : i # j => calls[i].offset # calls[j].offset
       /\ Len(calls) >= 1 => calls[1].offset = 1
       /\ \A p \in Producers : presult[p] = "ok" => poffset[p] \in 1..Len(calls)

\* MaxOffset calls have succeeded, none failed.
C2_Witness ==
  /\ burned = {}
  /\ Len(calls) = MaxOffset
  /\ \A i \in 1..Len(calls) : calls[i].status = "ok"

\* C7: a call whose allocate failed ends with BackendUnavailable holding no
\* offset; a call is at its put only with an offset the allocator returned
\* to it, and every object in the bucket was written by the call that was
\* given its offset, with that call's payload.
C7_PutOnlyAfterAllocate ==
  /\ \A p \in Producers :
       presult[p] = "BackendUnavailable" => ppc[p] = "done" /\ poffset[p] = 0
  /\ \A p \in InPut :
       \E i \in 1..Len(calls) : /\ calls[i].offset = poffset[p]
                                /\ calls[i].status = "putting"
                                /\ calls[i].payload = ppayload[p]
  /\ \A k \in 1..Len(bucket) :
       \E i \in 1..Len(calls) : /\ ObjectKey(calls[i].offset) = bucket[k].key
                                /\ calls[i].status = "ok"
                                /\ calls[i].payload = bucket[k].payload

\* A call ended with BackendUnavailable while another call is at its put and
\* a message is stored.
C7_Witness ==
  /\ \E p \in Producers : presult[p] = "BackendUnavailable"
  /\ InPut # {}
  /\ Len(bucket) >= 1

\* A step in which the put of the call holding offset calls[i].offset fails.
PutFailedStep(i) ==
  /\ i \in 1..Len(calls)
  /\ calls[i].status = "putting"
  /\ calls'[i].status = "failed"

\* C8: when the put that follows an allocate of offset n fails, produce
\* reports an error and leaves the counter as it is; the counter never
\* decreases; no other call is ever given n and no message is ever stored
\* at n.
C8_GapIsPermanent ==
  /\ [](\A i \in 1..Len(calls) :
          calls[i].status = "failed"
            => /\ ~HasObject(bucket, ObjectKey(calls[i].offset))
               /\ calls[i].offset <= counter
               /\ \A j \in 1..Len(calls) : j # i => calls[j].offset # calls[i].offset
               /\ \A p \in InPut : poffset[p] # calls[i].offset)
  /\ [][/\ counter' >= counter
        /\ \A i \in 1..Len(calls) :
             PutFailedStep(i)
               => /\ counter' = counter
                  /\ bucket' = bucket
                  /\ \E p \in InPut : /\ poffset[p] = calls[i].offset
                                      /\ ppc'[p] = "done"
                                      /\ presult'[p] = "WriteFailed"]_vars

\* The put of an offset failed, later offsets were allocated and one of them
\* is stored.
C8_Witness ==
  \E i \in 1..Len(calls) :
    /\ calls[i].status = "failed"
    /\ calls[i].offset < counter
    /\ \E k \in 1..Len(bucket) : ParseOffset(bucket[k].key) > calls[i].offset
\* The requested offset as the query gave it: absent, zero or negative is 1.
RequestedOffset ==
  IF creq.offset = {} THEN 1
  ELSE IF \E v \in creq.offset : v >= 1 THEN CHOOSE v \in creq.offset : TRUE ELSE 1

\* The requested limit as the query gave it: omitted is 10, below 1 is 1,
\* above 100 is 100.
RequestedLimit ==
  IF creq.limit = {} THEN 10
  ELSE LET v == CHOOSE x \in creq.limit : TRUE
       IN IF v < 1 THEN 1 ELSE IF v > 100 THEN 100 ELSE v

Responded == cpc = "done" /\ response.status = "ok"
MessageOffsets == {response.messages[i].offset : i \in 1..Len(response.messages)}

\* C3: whatever the order in which the fetches complete, the messages of a
\* consume response are strictly ascending by offset and none is below the
\* requested (normalized) offset.
C3_AscendingFromRequested ==
  Responded =>
    /\ \A i \in 1..(Len(response.messages) - 1) :
         response.messages[i].offset < response.messages[i + 1].offset
    /\ \A i \in 1..Len(response.messages) :
         response.messages[i].offset >= RequestedOffset

\* A response of two or more messages whose fetches completed out of order.
C3_Witness ==
  /\ Responded
  /\ Len(response.messages) >= 2
  /\ \E i \in 1..(Len(results) - 1) : results[i].offset > results[i + 1].offset

\* C4: next_offset is the largest returned offset plus 1 when messages were
\* returned, and the requested offset (absent, zero or negative counting as
\* 1) when none was.
C4_Cursor ==
  Responded =>
    IF response.messages # << >>
    THEN /\ response.next_offset - 1 \in MessageOffsets
         /\ \A o \in MessageOffsets : o < response.next_offset
    ELSE response.next_offset = RequestedOffset

\* A response that skips an offset inside its page: the cursor is past the
\* requested offset plus the number of messages.
C4_Witness ==
  /\ Responded
  /\ response.messages # << >>
  /\ response.next_offset > RequestedOffset + Len(response.messages)

\* An empty response to a request whose offset was negative.
C4_WitnessEmpty ==
  /\ Responded
  /\ response.messages = << >>
  /\ \E v \in creq.offset : v < 1

\* C5: a consume response holds at most clamp(limit, 1, 100) messages, an
\* omitted limit counting as 10.
C5_WindowBound == Responded => Len(response.messages) <= RequestedLimit

\* A limit of 500 answered with 100 messages while more are stored.
C5_Witness ==
  /\ Responded
  /\ creq.limit = {MaxLimit + 400}
  /\ Len(response.messages) = 100
  /\ Cardinality({o \in listed : o >= RequestedOffset}) > 100

\* C6: a step of a produce or consume call leaves every stored object in
\* place with its payload and timestamp; only the lifecycle rule's
\* expiration removes one.
C6_Immutable ==
  [][\A i \in 1..Len(bucket) :
       \/ /\ HasObject(bucket', bucket[i].key)
          /\ GetObject(bucket', bucket[i].key) = bucket[i]
       \/ Expire(bucket[i].key)]_vars

\* A stored message that a later put followed and a consume call returned.
C6_Witness ==
  /\ Responded
  /\ \E i \in 1..Len(bucket) :
       /\ bucket[i].timestamp + 1 < clock
       /\ ParseOffset(bucket[i].key) \in MessageOffsets
  /\ \E j \in 1..Len(calls) : calls[j].status = "failed"

\* C9: every message of a consume response carries the payload submitted by
\* the produce call that was given its offset.
C9_RoundTrip ==
  Responded =>
    \A i \in 1..Len(response.messages) :
      /\ \E j \in 1..Len(calls) : calls[j].offset = response.messages[i].offset
      /\ \A j \in 1..Len(calls) :
           calls[j].offset = response.messages[i].offset
             => /\ calls[j].payload = response.messages[i].payload
                /\ calls[j].status = "ok"

\* A response with two messages of different payloads.
C9_Witness ==
  /\ Responded
  /\ \E i, j \in 1..Len(response.messages) :
       response.messages[i].payload # response.messages[j].payload

\* The offsets of the window a consume call must select: the RequestedLimit
\* lowest offsets stored at listing time at or above the requested offset.
ExpectedWindow ==
  LET cand == {o \in listed : o >= RequestedOffset}
  IN {o \in cand : Cardinality({x \in cand : x < o}) < RequestedLimit}

FetchedOk == {k \in DOMAIN outcome : outcome[k] = "ok"}

\* C10: a consume call whose listing succeeded answers, once no fetch is
\* running and every fetch of the window has completed or failed, with
\* exactly the messages of the window whose fetch succeeded; the window is
\* the clamp(limit) lowest stored offsets at or above the requested offset;
\* the call fails only when the listing fails.
C10_WindowAndSkips ==
  /\ Responded =>
       /\ {ParseOffset(window[i]) : i \in 1..Len(window)} = ExpectedWindow
       /\ Len(window) = Cardinality(ExpectedWindow)
       /\ inflight = {}
       /\ DOMAIN outcome = {window[i] : i \in 1..Len(window)}
       /\ MessageOffsets = {ParseOffset(k) : k \in FetchedOk}
       /\ Len(response.messages) = Cardinality(FetchedOk)
  /\ (cpc = "done" /\ response.status # "ok")
       => response.status = "BackendUnavailable" /\ dispatched = 0 /\ window = << >>

\* A response whose window skipped a gap, in which a fetch failed and a
\* message at a higher offset was returned.
C10_Witness ==
  /\ Responded
  /\ \E k \in DOMAIN outcome :
       /\ outcome[k] = "miss"
       /\ \E o \in MessageOffsets : o > ParseOffset(k)
  /\ \E o \in 1..counter : o \notin listed /\ o > RequestedOffset /\ \E m \in MessageOffsets : m > o
\* C11: at every moment of a consume call, whatever its limit, at most 10
\* fetches are running; a running fetch is one of the window's that has been
\* started and has not completed.
C11_BoundedFetches ==
  /\ Cardinality(inflight) <= 10
  /\ inflight \subseteq {window[i] : i \in 1..dispatched}
  /\ cpc # "fetch" => inflight = {}

\* Ten fetches are running while more of a window of 100 wait to be started.
C11_Witness ==
  /\ cpc = "fetch"
  /\ Cardinality(inflight) = 10
  /\ Len(window) = 100
  /\ dispatched < Len(window)
\* The produce call that was given offset o has written its message.
PutSucceeded(o) == \E i \in 1..Len(calls) : calls[i].offset = o /\ calls[i].status = "ok"

\* C12: a client that polls forever from offset 1 with the next_offset of
\* its previous response is eventually given every message whose put
\* succeeded, also when produce calls run concurrently with it.
C12_EventuallyReceived ==
  \A o \in 1..MaxOffset : PutSucceeded(o) ~> (o \in received)

\* C12, as a finite run refutes it: the cursor never moves back and a
\* listing starts at the cursor, so a message whose put succeeded at an
\* offset the cursor has passed must already have been given to the client.
C12_NoneLeftBehind ==
  \A o \in 1..MaxOffset : (PutSucceeded(o) /\ o < cursor) => o \in received

\* The cursor never moves back, and the client is only given messages at or
\* after its cursor: what lies behind the cursor is never fetched again.
C12_CursorOnlyAdvances ==
  [][/\ cursor' >= cursor
     /\ \A o \in received' \ received : o >= cursor]_vars

\* The put of offset 1 succeeded after offset 2 had been listed: the client
\* was given offset 2, its cursor is 3, and offset 1 is stored behind it.
C12_LeftBehind ==
  /\ PutSucceeded(1)
  /\ HasObject(bucket, ObjectKey(1))
  /\ cursor = 3
  /\ received = {2}
  /\ cpc = "idle"
====
